---- MODULE Spec2Model ----
(***************************************************************************)
(* Model of fetch_dividends.py: fetch_all_data walks DIVIDEND_TICKERS,     *)
(* derives one record per ticker from the provider's quote fields, price   *)
(* series and dividend history, collects the records, sorts them by yield  *)
(* and writes five JSON views.                                             *)
(*                                                                         *)
(* Numbers: Python floats are modelled as exact rationals <<n, d>> in      *)
(* lowest terms with d > 0; round(x, k) is rounding to the nearest         *)
(* multiple of 10^-k with ties to even.  Binary floating-point error is    *)
(* not modelled.  Dates are integers yyyymmdd.  The provider's answers for *)
(* one ticker are gathered in a "feed" record; the record fields           *)
(* payoutRatio, marketCap and sector and the "updated" stamp are passed    *)
(* through by the code without influencing any filter, sort or slice and   *)
(* are left out.                                                           *)
(***************************************************************************)
EXTENDS Integers, Sequences, FiniteSets, TLC

VARIABLES total, pc, i, stocks_basic, stocks_history, files, attempted,
          log, feeds, outcomes

vars == <<total, pc, i, stocks_basic, stocks_history, files, attempted,
          log, feeds, outcomes>>

----------------------------------------------------------------------------
(* Float arithmetic as exact rationals *)

Abs(x) == IF x < 0 THEN -x ELSE x

RECURSIVE GCD(_, _)
GCD(a, b) == IF b = 0 THEN a ELSE GCD(b, a % b)

Rat(n, d) ==
  LET s == IF d < 0 THEN -1 ELSE 1
      g == GCD(Abs(n), Abs(d))
  IN  <<(s * n) \div g, (s * d) \div g>>

Zero == Rat(0, 1)
RInt(n) == Rat(n, 1)
RAdd(x, y) == Rat(x[1] * y[2] + y[1] * x[2], x[2] * y[2])
RSub(x, y) == Rat(x[1] * y[2] - y[1] * x[2], x[2] * y[2])
RMul(x, y) == Rat(x[1] * y[1], x[2] * y[2])
RDiv(x, y) == Rat(x[1] * y[2], x[2] * y[1])
RLess(x, y) == x[1] * y[2] < y[1] * x[2]
RLeq(x, y) == x[1] * y[2] <= y[1] * x[2]

(* round(x, 2): nearest hundredth, ties to even *)
Round2(x) ==
  LET n == 100 * x[1]
      q == n \div x[2]
      r == n - q * x[2]
      up == \/ 2 * r > x[2]
            \/ (2 * r = x[2] /\ q % 2 = 1)
  IN  Rat(IF up THEN q + 1 ELSE q, 100)

(* round(x, 4) *)
Round4(x) ==
  LET n == 10000 * x[1]
      q == n \div x[2]
      r == n - q * x[2]
      up == \/ 2 * r > x[2]
            \/ (2 * r = x[2] /\ q % 2 = 1)
  IN  Rat(IF up THEN q + 1 ELSE q, 10000)

----------------------------------------------------------------------------
(* Quote fields of stock.info: a key may be absent, null or a number *)

Missing == [kind |-> "missing", val |-> Zero]
PyNone == [kind |-> "none", val |-> Zero]
Num(r) == [kind |-> "num", val |-> r]

(* info.get(key, default) *)
Get(field, default) == IF field.kind = "missing" THEN default ELSE field

(* Python truthiness of a number or None *)
Truthy(v) == v.kind = "num" /\ v.val # Zero

(* a or b *)
PyOr(a, b) == IF Truthy(a) THEN a ELSE b

(* lines 49-51: the three quote numbers, absent or null read as 0 *)
ReportedYield(info) == PyOr(Get(info.dividendYield, Num(Zero)), Num(Zero)).val
DividendRate(info) == PyOr(Get(info.dividendRate, Num(Zero)), Num(Zero)).val
Price(info) ==
  PyOr(PyOr(Get(info.currentPrice, PyNone),
            Get(info.regularMarketPrice, Num(Zero))),
       Num(Zero)).val

PercentThreshold == Rat(20, 100)

NormalizeYield_noFallback(info) ==
  LET rate == DividendRate(info)
      price == Price(info)
      reported == ReportedYield(info)
  IN  IF RLess(Zero, rate) /\ RLess(Zero, price) THEN RDiv(rate, price)
      ELSE reported

(* lines 54-58 *)
NormalizeYield(info) ==
  LET rate == DividendRate(info)
      price == Price(info)
      reported == ReportedYield(info)
  IN  IF RLess(Zero, rate) /\ RLess(Zero, price) THEN RDiv(rate, price)
      ELSE IF RLess(PercentThreshold, reported) THEN RDiv(reported, RInt(100))
      ELSE reported

Excluded_onlyNegative(yield) == RLess(yield, Zero)

(* line 60 *)
Excluded(yield) == RLeq(yield, Zero)

----------------------------------------------------------------------------
(* Derivation of one ticker's record.  A price series is a sequence of     *)
(* [date, close] in date order; the dividend history a sequence of         *)
(* [date, amount] in date order.                                           *)

Periods == {"1y", "3y", "5y"}
PeriodOrder == <<"1y", "3y", "5y">>

YearOf(date) == date \div 10000
MonthOf(date) == (date \div 100) % 100
YearMonthOf(date) == date \div 100

PercentChange(start, end) == RMul(RDiv(RSub(end, start), start), RInt(100))

(* lines 69-74 *)
YearReturn(hist_1y) ==
  IF Len(hist_1y) > 1
  THEN Num(Round2(PercentChange(hist_1y[1].close, hist_1y[Len(hist_1y)].close)))
  ELSE PyNone

(* lines 77-85: last close of every calendar month that has data *)
RECURSIVE MonthlyPrices(_)
MonthlyPrices(h) ==
  IF h = <<>> THEN <<>>
  ELSE IF Len(h) > 1 /\ YearMonthOf(h[2].date) = YearMonthOf(h[1].date)
       THEN MonthlyPrices(Tail(h))
       ELSE <<[date |-> YearMonthOf(h[1].date), price |-> Round2(h[1].close)]>>
            \o MonthlyPrices(Tail(h))

(* lines 94-99 *)
DivHistory(divs) ==
  [k \in 1..Len(divs) |-> [date |-> divs[k].date, amount |-> Round4(divs[k].amount)]]

(* line 100 *)
DivMonths(divs) == {MonthOf(divs[k].date) : k \in 1..Len(divs)}

RECURSIVE SumOfYear(_, _)
SumOfYear(divs, year) ==
  IF divs = <<>> THEN Zero
  ELSE LET rest == SumOfYear(SubSeq(divs, 1, Len(divs) - 1), year)
           last == divs[Len(divs)]
       IN  IF YearOf(last.date) = year THEN RAdd(rest, last.amount) ELSE rest

(* lines 101-102 *)
AnnualDivs(divs) ==
  [y \in {YearOf(divs[k].date) : k \in 1..Len(divs)} |-> SumOfYear(divs, y)]

(* sorted(...) of a set of integers *)
RECURSIVE SortedSeq(_)
SortedSeq(S) ==
  IF S = {} THEN <<>>
  ELSE LET m == CHOOSE x \in S : \A y \in S : x <= y
       IN  <<m>> \o SortedSeq(S \ {m})

RECURSIVE Streak_notStrict(_, _, _)
Streak_notStrict(annual, years, j) ==
  IF j < 2 THEN 0
  ELSE IF RLeq(annual[years[j - 1]], annual[years[j]])
       THEN 1 + Streak_notStrict(annual, years, j - 1)
       ELSE 0

(* lines 108-112: j walks from the last year down to the second *)
RECURSIVE Streak(_, _, _)
Streak(annual, years, j) ==
  IF j < 2 THEN 0
  ELSE IF RLess(annual[years[j - 1]], annual[years[j]])
       THEN 1 + Streak(annual, years, j - 1)
       ELSE 0

ConsecIncreases_notStrict(annual_divs) ==
  LET sorted_years == SortedSeq(DOMAIN annual_divs)
  IN  IF Len(sorted_years) >= 2
      THEN Streak_notStrict(annual_divs, sorted_years, Len(sorted_years))
      ELSE 0

(* lines 105-112 *)
ConsecIncreases(annual_divs) ==
  LET sorted_years == SortedSeq(DOMAIN annual_divs)
  IN  IF Len(sorted_years) >= 2
      THEN Streak(annual_divs, sorted_years, Len(sorted_years))
      ELSE 0

(* lines 123-124: divs[h.index[0]:h.index[-1]].sum(), both ends included *)
RECURSIVE DivSum(_, _, _)
DivSum(divs, first, last) ==
  IF divs = <<>> THEN Zero
  ELSE LET rest == DivSum(Tail(divs), first, last)
       IN  IF first <= divs[1].date /\ divs[1].date <= last
           THEN RAdd(divs[1].amount, rest)
           ELSE rest

PriceReturn(h) == PercentChange(h[1].close, h[Len(h)].close)
DivReturn(h, divs) ==
  RMul(RDiv(DivSum(divs, h[1].date, h[Len(h)].date), h[1].close), RInt(100))

ReturnEntry_sumOfRounded(h, divs) ==
  [priceReturn |-> Round2(PriceReturn(h)),
   divReturn   |-> Round2(DivReturn(h, divs)),
   totalReturn |-> RAdd(Round2(PriceReturn(h)), Round2(DivReturn(h, divs)))]

(* lines 120-130 *)
ReturnEntry(h, divs) ==
  [priceReturn |-> Round2(PriceReturn(h)),
   divReturn   |-> Round2(DivReturn(h, divs)),
   totalReturn |-> Round2(RAdd(PriceReturn(h), DivReturn(h, divs)))]

(* does the iteration of line 116 for period p store an entry *)
HasEntry(feed, p) == ~feed.periodRaises[p] /\ Len(feed.series[p]) > 1

(* the same loop with the handler of lines 131-132 leaving the loop *)
TotalReturns_stopAtFailure(feed) ==
  LET reached(p) == \A k \in 1..3 :
                      (\E m \in k..3 : PeriodOrder[m] = p) => ~feed.periodRaises[PeriodOrder[k]]
  IN  [p \in {q \in Periods : HasEntry(feed, q) /\ reached(q)} |->
         ReturnEntry(feed.series[p], feed.dividends)]

(* lines 115-132 *)
TotalReturns(feed) ==
  [p \in {q \in Periods : HasEntry(feed, q)} |->
     ReturnEntry(feed.series[p], feed.dividends)]

(* line 66 *)
Name(ticker, info) == IF info.hasShortName THEN <<"shortName", ticker>> ELSE <<"ticker", ticker>>

(* lines 134-144 *)
Record(ticker, feed) ==
  [ticker          |-> ticker,
   name            |-> Name(ticker, feed.info),
   price           |-> Round2(Price(feed.info)),
   dividendYield   |-> Round2(RMul(NormalizeYield(feed.info), RInt(100))),
   dividendRate    |-> Round2(DividendRate(feed.info)),
   yearReturn      |-> YearReturn(feed.series["1y"]),
   divMonths       |-> SortedSeq(DivMonths(feed.dividends)),
   consecIncreases |-> ConsecIncreases(AnnualDivs(feed.dividends)),
   totalReturns    |-> TotalReturns(feed)]

HistoryCap == 60

(* s[-n:] *)
LastN(s, n) == SubSeq(s, IF Len(s) > n THEN Len(s) - n + 1 ELSE 1, Len(s))

(* lines 146-149 *)
History(feed) ==
  [monthlyPrices |-> MonthlyPrices(feed.series["5y"]),
   dividends     |-> LastN(DivHistory(feed.dividends), HistoryCap)]

----------------------------------------------------------------------------
(* One iteration of the loop of lines 44-157.  feed.raisesAt names the     *)
(* provider call outside the per-period block that raises (or "none"):     *)
(* stock.info (line 47), stock.history (lines 69, 77), stock.dividends     *)
(* (line 88).  feed.periodRaises[p] says whether the body of the           *)
(* per-period try of lines 117-130 raises for period p.                    *)

(* lines 45-61, 131-132, 155-157: how the iteration ends *)
Outcome(feed) ==
  IF feed.raisesAt = "info" THEN "error"
  ELSE IF Excluded(NormalizeYield(feed.info)) THEN "excluded"
  ELSE IF feed.raisesAt # "none" THEN "error"
  ELSE "collected"

(* an exception was raised in the per-period block and swallowed there *)
PeriodRaised(feed, p) ==
  /\ feed.raisesAt = "none"
  /\ ~Excluded(NormalizeYield(feed.info))
  /\ feed.periodRaises[p]

Collect_appendsOnError(sb, ticker, feed) ==
  IF Outcome(feed) = "excluded" THEN sb ELSE Append(sb, Record(ticker, feed))

(* line 134, reached only by an iteration that neither raised nor continued *)
Collect(sb, ticker, feed) ==
  IF Outcome(feed) = "collected" THEN Append(sb, Record(ticker, feed)) ELSE sb

(* lines 146-149 *)
Remember(sh, ticker, feed) ==
  IF Outcome(feed) = "collected" THEN sh @@ (ticker :> History(feed)) ELSE sh

(* line 47 starts the provider traffic of the ticker; line 153 pauses *)
Events(ticker, feed) ==
  IF Outcome(feed) = "collected"
  THEN <<[op |-> "fetch", ticker |-> ticker], [op |-> "sleep", ticker |-> ticker]>>
  ELSE <<[op |-> "fetch", ticker |-> ticker]>>

(* lines 44-157: one iteration for DIVIDEND_TICKERS[i] *)
ProcessTicker(Feeds) ==
  /\ pc = "loop"
  /\ i <= total
  /\ \E feed \in Feeds :
       /\ stocks_basic' = Collect(stocks_basic, i, feed)
       /\ stocks_history' = Remember(stocks_history, i, feed)
       /\ log' = log \o Events(i, feed)
       /\ feeds' = Append(feeds, feed)
       /\ outcomes' = Append(outcomes, Outcome(feed))
  /\ i' = i + 1
  /\ UNCHANGED <<total, pc, files, attempted>>

----------------------------------------------------------------------------
(* Partition and emission, lines 159-186 *)

(* positions 1..n ordered by key descending, equal keys in list order:     *)
(* list.sort / sorted with reverse=True are stable                         *)
RECURSIVE InsertDesc(_, _, _)
InsertDesc(k, order, keys) ==
  IF order = <<>> THEN <<k>>
  ELSE IF RLess(keys[Head(order)], keys[k]) THEN <<k>> \o order
  ELSE <<Head(order)>> \o InsertDesc(k, Tail(order), keys)

RECURSIVE OrderDesc(_, _)
OrderDesc(n, keys) ==
  IF n = 0 THEN <<>> ELSE InsertDesc(n, OrderDesc(n - 1, keys), keys)

SortDesc(s, keys) ==
  LET order == OrderDesc(Len(s), keys) IN [k \in 1..Len(s) |-> s[order[k]]]

SortAsc(s, keys) ==
  LET order == OrderDesc(Len(s), keys) IN [k \in 1..Len(s) |-> s[order[Len(s) + 1 - k]]]

Min(a, b) == IF a < b THEN a ELSE b

(* line 159 *)
SortByYield(sb) == SortDesc(sb, [k \in 1..Len(sb) |-> sb[k].dividendYield])

TopN == 30

TopYield_countLength(sb) ==
  [count |-> Len(sb), stocks |-> SubSeq(sb, 1, Min(TopN, Len(sb)))]

(* line 164 *)
TopYield(sb) ==
  [count |-> Min(TopN, Len(sb)), stocks |-> SubSeq(sb, 1, Min(TopN, Len(sb)))]

(* line 167 *)
Scatter(sb) ==
  LET hasReturn(s) == s.yearReturn.kind # "none" IN [stocks |-> SelectSeq(sb, hasReturn)]

ReturnSentinel == -999

(* line 173: x["totalReturns"].get("1y", {}).get("totalReturn", -999) *)
ReturnKey(s) ==
  IF "1y" \in DOMAIN s.totalReturns THEN s.totalReturns["1y"].totalReturn
  ELSE RInt(ReturnSentinel)

ReturnsRanked_ascending(sb) ==
  LET hasReturns(s) == DOMAIN s.totalReturns # {}
      sel == SelectSeq(sb, hasReturns)
  IN  [stocks |-> SortAsc(sel, [k \in 1..Len(sel) |-> ReturnKey(sel[k])])]

(* lines 172-173 *)
ReturnsRanked(sb) ==
  LET hasReturns(s) == DOMAIN s.totalReturns # {}
      sel == SelectSeq(sb, hasReturns)
  IN  [stocks |-> SortDesc(sel, [k \in 1..Len(sel) |-> ReturnKey(sel[k])])]

(* lines 179-181 *)
Simulator(sb, sh) ==
  [histories |-> sh,
   tickers   |-> [k \in 1..Len(sb) |-> sb[k].ticker],
   names     |-> [t \in {sb[k].ticker : k \in 1..Len(sb)} |->
                    (CHOOSE s \in {sb[k] : k \in 1..Len(sb)} : s.ticker = t).name]]

(* line 184 *)
Calendar(sb) ==
  LET hasMonths(s) == Len(s.divMonths) > 0 IN [stocks |-> SelectSeq(sb, hasMonths)]

Views == {"dividend_data", "scatter_data", "total_return_data", "simulator_data", "calendar_data"}

(* with open(view, "w") ...: json.dump(payload): the write succeeds, or     *)
(* open / dump raises and the exception leaves fetch_all_data              *)
WriteFile(view, payload, next) ==
  /\ attempted' = attempted \cup {view}
  /\ \/ /\ files' = files @@ (view :> payload)
        /\ pc' = next
     \/ /\ files' = files
        /\ pc' = "crashed"

(* lines 159-164, after the loop has run out *)
EmitDividend ==
  /\ pc = "loop"
  /\ i > total
  /\ stocks_basic' = SortByYield(stocks_basic)
  /\ WriteFile("dividend_data", TopYield(SortByYield(stocks_basic)), "scatter")
  /\ UNCHANGED <<total, i, stocks_history, log, feeds, outcomes>>

(* lines 167-169 *)
EmitScatter ==
  /\ pc = "scatter"
  /\ WriteFile("scatter_data", Scatter(stocks_basic), "total_return")
  /\ UNCHANGED <<total, i, stocks_basic, stocks_history, log, feeds, outcomes>>

(* lines 172-175 *)
EmitTotalReturn ==
  /\ pc = "total_return"
  /\ WriteFile("total_return_data", ReturnsRanked(stocks_basic), "simulator")
  /\ UNCHANGED <<total, i, stocks_basic, stocks_history, log, feeds, outcomes>>

(* lines 178-181 *)
EmitSimulator ==
  /\ pc = "simulator"
  /\ WriteFile("simulator_data", Simulator(stocks_basic, stocks_history), "calendar")
  /\ UNCHANGED <<total, i, stocks_basic, stocks_history, log, feeds, outcomes>>

(* lines 184-186 *)
EmitCalendar ==
  /\ pc = "calendar"
  /\ WriteFile("calendar_data", Calendar(stocks_basic), "done")
  /\ UNCHANGED <<total, i, stocks_basic, stocks_history, log, feeds, outcomes>>

(* lines 38-40 *)
Start(n) ==
  /\ total = n
  /\ pc = "loop"
  /\ i = 1
  /\ stocks_basic = <<>>
  /\ stocks_history = <<>>
  /\ files = <<>>
  /\ attempted = {}
  /\ log = <<>>
  /\ feeds = <<>>
  /\ outcomes = <<>>

----------------------------------------------------------------------------
(* What the provider may answer for one ticker *)

Point(date, close) == [date |-> date, close |-> RInt(close)]
Payment(date, amount) == [date |-> date, amount |-> amount]

BaseInfo ==
  [dividendYield      |-> Num(Rat(4, 100)),
   dividendRate       |-> Num(RInt(2)),
   currentPrice       |-> Num(RInt(50)),
   regularMarketPrice |-> Missing,
   hasShortName       |-> TRUE]

NoQuoteInfo ==
  [dividendYield      |-> Missing,
   dividendRate       |-> Missing,
   currentPrice       |-> Missing,
   regularMarketPrice |-> Missing,
   hasShortName       |-> FALSE]

BaseSeries ==
  [p \in Periods |->
     CASE p = "1y" -> <<Point(20240102, 100), Point(20241231, 110)>>
       [] p = "3y" -> <<Point(20220103, 80), Point(20241231, 110)>>
       [] p = "5y" -> <<Point(20200102, 50), Point(20241129, 105), Point(20241231, 110)>>]

BaseDividends == <<Payment(20230615, RInt(1)), Payment(20240615, RInt(2))>>

BaseFeed ==
  [info         |-> BaseInfo,
   raisesAt     |-> "none",
   periodRaises |-> [p \in Periods |-> FALSE],
   series       |-> BaseSeries,
   dividends    |-> BaseDividends]

(* the answers the pipeline specification draws from: the base answer and   *)
(* one answer per way an iteration can go differently                       *)
PipelineFeeds ==
  { BaseFeed,
    [BaseFeed EXCEPT !.raisesAt = "info"],
    [BaseFeed EXCEPT !.raisesAt = "history_1y"],
    [BaseFeed EXCEPT !.raisesAt = "dividends"],
    [BaseFeed EXCEPT !.info = NoQuoteInfo],
    [BaseFeed EXCEPT !.info = [NoQuoteInfo EXCEPT !.dividendYield = Num(Rat(25, 100)),
                                                  !.regularMarketPrice = Num(RInt(50))]],
    [BaseFeed EXCEPT !.periodRaises["1y"] = TRUE],
    [BaseFeed EXCEPT !.info.dividendRate = Num(RInt(3)),
                     !.series["1y"] = <<Point(20240102, 100), Point(20241231, 80)>>],
    [BaseFeed EXCEPT !.series = [p \in Periods |-> <<>>]],
    [BaseFeed EXCEPT !.dividends = <<>>] }

NTickers == 3

Init == Start(NTickers)

Next ==
  \/ ProcessTicker(PipelineFeeds)
  \/ EmitDividend
  \/ EmitScatter
  \/ EmitTotalReturn
  \/ EmitSimulator
  \/ EmitCalendar

Spec == Init /\ [][Next]_vars

----------------------------------------------------------------------------
(* Quote fields in every combination: the first ticker's quote is drawn    *)
(* from QuoteInfos, the second ticker answers as BaseFeed.                 *)

QYields ==
  {Missing, PyNone, Num(Zero), Num(Rat(-1, 100)), Num(Rat(5, 100)), Num(Rat(20, 100)),
   Num(Rat(21, 100)), Num(Rat(25, 100))}
QRates == {Missing, PyNone, Num(Zero), Num(RInt(-1)), Num(RInt(2))}
QCurrentPrices == {Missing, PyNone, Num(Zero), Num(RInt(50))}
QRegularPrices == {Missing, PyNone, Num(Zero), Num(RInt(40))}

QuoteInfos ==
  [dividendYield : QYields, dividendRate : QRates, currentPrice : QCurrentPrices,
   regularMarketPrice : QRegularPrices, hasShortName : {TRUE}]

QuoteFeeds == {[BaseFeed EXCEPT !.info = q] : q \in QuoteInfos}

InitYield == Start(2)

NextYield ==
  \/ ProcessTicker(IF i = 1 THEN QuoteFeeds ELSE {BaseFeed})
  \/ EmitDividend
  \/ EmitScatter
  \/ EmitTotalReturn
  \/ EmitSimulator
  \/ EmitCalendar

SpecYield == InitYield /\ [][NextYield]_vars

----------------------------------------------------------------------------
(* Dividend histories: up to MaxPayments payments in date order, each in a *)
(* year of PayYears with an amount of PayAmounts; the k-th payment of a    *)
(* history falls on the 15th of month 2k.                                  *)

MaxPayments == 4
PayYears == 2021..2024
PayAmounts == {RInt(1), Rat(11, 10), Rat(12, 10)}

HistoriesOfLength(n) ==
  LET raw == {h \in [1..n -> PayYears \X PayAmounts] :
                \A k \in 1..(n - 1) : h[k][1] <= h[k + 1][1]}
  IN  {[k \in 1..n |-> Payment(h[k][1] * 10000 + 2 * k * 100 + 15, h[k][2])] : h \in raw}

PaymentHistories == UNION {HistoriesOfLength(n) : n \in 0..MaxPayments}

DividendFeeds == {[BaseFeed EXCEPT !.dividends = h] : h \in PaymentHistories}

InitStreak == Start(1)

NextStreak ==
  \/ ProcessTicker(DividendFeeds)
  \/ EmitDividend
  \/ EmitScatter
  \/ EmitTotalReturn
  \/ EmitSimulator
  \/ EmitCalendar

SpecStreak == InitStreak /\ [][NextStreak]_vars

----------------------------------------------------------------------------
(* Price series and period failures.  ReturnFeeds vary the 1y series (up   *)
(* to MaxPoints closes, the k-th on the 2nd of month k of 2024) and the    *)
(* dividends around its date range; FailureFeeds vary which periods raise  *)
(* and how long each period's series is.                                   *)

MaxPoints == 2
Closes == {3, 4, 100, 110}

ClosesOfLength(n) == {[k \in 1..n |-> Point(20240002 + 100 * k, c[k])] : c \in [1..n -> Closes]}

CloseSeries == UNION {ClosesOfLength(n) : n \in 0..MaxPoints}

DatedAmounts ==
  [d \in {20230615, 20240102, 20240115, 20240615} |-> IF d = 20240115 THEN RInt(2) ELSE RInt(1)]

DividendsAround ==
  {LET dates == SortedSeq(D) IN [k \in 1..Len(dates) |-> Payment(dates[k], DatedAmounts[dates[k]])] :
     D \in SUBSET DOMAIN DatedAmounts}

ReturnFeeds ==
  {[BaseFeed EXCEPT !.series["1y"] = h, !.dividends = d] : h \in CloseSeries, d \in DividendsAround}

SeriesLengths(p) == {<<>>, <<BaseSeries[p][1]>>, BaseSeries[p]}

FailureFeeds ==
  {[BaseFeed EXCEPT !.periodRaises = r, !.series = sr] :
     r \in [Periods -> BOOLEAN],
     sr \in {f \in [Periods -> UNION {SeriesLengths(p) : p \in Periods}] :
               \A p \in Periods : f[p] \in SeriesLengths(p)}}

InitReturns == Start(1)

NextReturns ==
  \/ ProcessTicker(ReturnFeeds \cup FailureFeeds)
  \/ EmitDividend
  \/ EmitScatter
  \/ EmitTotalReturn
  \/ EmitSimulator
  \/ EmitCalendar

SpecReturns == InitReturns /\ [][NextReturns]_vars

----------------------------------------------------------------------------
(* A ticker list longer than the top-yield cut.  The k-th ticker quotes a  *)
(* rate of 1..5 on a price of 100 (equal yields recur); each of the first  *)
(* Skippable tickers may instead quote nothing or raise.                   *)

NTop == 31
Skippable == 2

RatedFeed(k) ==
  [BaseFeed EXCEPT !.info.dividendRate = Num(RInt(((7 * k) % 5) + 1)),
                   !.info.currentPrice = Num(RInt(100))]

TopFeeds(k) ==
  IF k <= Skippable
  THEN {RatedFeed(k), [BaseFeed EXCEPT !.info = NoQuoteInfo], [BaseFeed EXCEPT !.raisesAt = "info"]}
  ELSE {RatedFeed(k)}

InitTop == Start(NTop)

NextTop ==
  \/ ProcessTicker(TopFeeds(i))
  \/ EmitDividend
  \/ EmitScatter
  \/ EmitTotalReturn
  \/ EmitSimulator
  \/ EmitCalendar

SpecTop == InitTop /\ [][NextTop]_vars

----------------------------------------------------------------------------
(* Vocabulary of the properties *)

StockViews == {"dividend_data", "scatter_data", "total_return_data", "calendar_data"}

Processed == 1..Len(feeds)

TickersOf(stocks) == {stocks[k].ticker : k \in 1..Len(stocks)}

(* ticker t shows in a written view, in the collected list or in the histories *)
InStockView(t) == \E v \in StockViews \cap DOMAIN files : t \in TickersOf(files[v].stocks)

InSimulatorView(t) ==
  /\ "simulator_data" \in DOMAIN files
  /\ \/ t \in DOMAIN files["simulator_data"].histories
     \/ t \in {files["simulator_data"].tickers[k] : k \in 1..Len(files["simulator_data"].tickers)}
     \/ t \in DOMAIN files["simulator_data"].names

Appears(t) ==
  \/ InStockView(t)
  \/ InSimulatorView(t)
  \/ t \in TickersOf(stocks_basic)
  \/ t \in DOMAIN stocks_history

(* an exception reached the handler of lines 155-157 while t was processed *)
RaisedToTickerHandler(t) ==
  \/ feeds[t].raisesAt = "info"
  \/ feeds[t].raisesAt # "none" /\ RLess(Zero, NormalizeYield(feeds[t].info))

(* some exception was raised while t was fetched or derived *)
RaisedAnywhere(t) ==
  \/ RaisedToTickerHandler(t)
  \/ \E p \in Periods : PeriodRaised(feeds[t], p)

(* t derives without an exception reaching the ticker handler, yield > 0 *)
Succeeds(t) == feeds[t].raisesAt = "none" /\ RLess(Zero, NormalizeYield(feeds[t].info))

RECURSIVE ExpectedCollected(_)
ExpectedCollected(n) ==
  IF n = 0 THEN <<>>
  ELSE IF Succeeds(n) THEN Append(ExpectedCollected(n - 1), Record(n, feeds[n]))
  ELSE ExpectedCollected(n - 1)

SameRecords(s, e) == Len(s) = Len(e) /\ {s[k] : k \in 1..Len(s)} = {e[k] : k \in 1..Len(e)}

(* C1, as stated: whenever any exception was raised while ticker X was      *)
(* fetched or derived, X appears in no output view and in no collection.    *)
C1_AnyExceptionDropsTicker ==
  \A t \in Processed : RaisedAnywhere(t) => ~Appears(t)

(* C1, amended: an exception raised outside the per-period block reaches    *)
(* the ticker handler; the loop then stands at the next ticker (and only a  *)
(* file write can end the run early), the failed ticker appears in no view  *)
(* and in no collection, and the collected list holds exactly the records   *)
(* of the tickers that derive with yield > 0, as derived from their own     *)
(* answers, in list order until the sort.                                   *)
C1_HandledExceptionSkipsOnlyThatTicker ==
  /\ \A t \in Processed : RaisedToTickerHandler(t) => ~Appears(t)
  /\ i = Len(feeds) + 1
  /\ pc = "loop" => stocks_basic = ExpectedCollected(Len(feeds))
  /\ pc # "loop" => Len(feeds) = total /\ SameRecords(stocks_basic, ExpectedCollected(total))
  /\ pc = "crashed" => attempted # {}

(* C1 witness: the run is complete, the first ticker raised to the handler, *)
(* a later ticker is collected and written to the views.                    *)
C1_Witness ==
  /\ pc = "done"
  /\ RaisedToTickerHandler(1)
  /\ \E t \in Processed : t > 1 /\ Succeeds(t) /\ InStockView(t) /\ InSimulatorView(t)

(* C3, as stated: when the run has ended, normally or by a failed write,    *)
(* the write of every one of the five views has been attempted.             *)
C3_EveryViewAttempted ==
  pc \in {"done", "crashed"} => attempted = Views

FetchAt(k, t) == log[k].op = "fetch" /\ log[k].ticker = t

(* C10, as stated: fetches happen in list order, and between the fetch of   *)
(* a ticker and the fetch of the next one the pause is taken.               *)
C10_PauseBetweenFetches ==
  /\ \A a, b \in 1..Len(log) :
       (a < b /\ log[a].op = "fetch" /\ log[b].op = "fetch") => log[a].ticker < log[b].ticker
  /\ \A a, b \in 1..Len(log) :
       (a < b /\ \E t \in Processed : FetchAt(a, t) /\ FetchAt(b, t + 1))
         => \E c \in (a + 1)..(b - 1) : log[c].op = "sleep"

Has1y(s) == "1y" \in DOMAIN s.totalReturns
Return1y(s) == s.totalReturns["1y"].totalReturn

(* C5: the returns-ranked view holds exactly the collected records with a   *)
(* non-empty totalReturns map, in descending order of the 1y totalReturn,   *)
(* every record without a 1y entry after all records with one.              *)
C5_ReturnsRankedOrder ==
  "total_return_data" \in DOMAIN files =>
    LET R == files["total_return_data"].stocks
        want == {s \in {stocks_basic[k] : k \in 1..Len(stocks_basic)} : DOMAIN s.totalReturns # {}}
    IN  /\ {R[k] : k \in 1..Len(R)} = want
        /\ Len(R) = Cardinality(want)
        /\ \A a, b \in 1..Len(R) :
             (a < b /\ Has1y(R[a]) /\ Has1y(R[b])) => RLeq(Return1y(R[b]), Return1y(R[a]))
        /\ \A a, b \in 1..Len(R) :
             (Has1y(R[a]) /\ ~Has1y(R[b])) => a < b

(* C5 witness: in yield order a record without a 1y entry precedes one with *)
(* an entry, and a lower 1y return precedes a higher one; the view is       *)
(* written, and a record with empty totalReturns is left out.               *)
C5_Witness ==
  /\ "total_return_data" \in DOMAIN files
  /\ \E a, b \in 1..Len(stocks_basic) :
       a < b /\ ~Has1y(stocks_basic[a]) /\ DOMAIN stocks_basic[a].totalReturns # {}
             /\ Has1y(stocks_basic[b])
  /\ \E a, b \in 1..Len(stocks_basic) :
       a < b /\ Has1y(stocks_basic[a]) /\ Has1y(stocks_basic[b])
             /\ RLess(Return1y(stocks_basic[a]), Return1y(stocks_basic[b]))

Collected(t) == t \in TickersOf(stocks_basic)
RecordOf(t) == CHOOSE s \in {stocks_basic[k] : k \in 1..Len(stocks_basic)} : s.ticker = t

AllViewsWritten == DOMAIN files = Views

(* a quote number as the claim reads it: absent or null is 0 *)
NumberOr0(field) == IF field.kind = "num" THEN field.val ELSE Zero
QuotedRate(t) == NumberOr0(feeds[t].info.dividendRate)
QuotedYield(t) == NumberOr0(feeds[t].info.dividendYield)
QuotedPrice(t) ==
  IF NumberOr0(feeds[t].info.currentPrice) # Zero
  THEN NumberOr0(feeds[t].info.currentPrice)
  ELSE NumberOr0(feeds[t].info.regularMarketPrice)

RatePriceCase(t) == RLess(Zero, QuotedRate(t)) /\ RLess(Zero, QuotedPrice(t))

(* C2: a processed ticker whose normalized yield is <= 0 is in none of the  *)
(* five views (nor in the collected list or the histories they are cut      *)
(* from).                                                                   *)
C2_NonPositiveYieldNeverEmitted ==
  \A t \in Processed : RLeq(NormalizeYield(feeds[t].info), Zero) => ~Appears(t)

(* C2 witness: all five views are written, the first ticker's yield is      *)
(* <= 0 although a price is quoted, and the second ticker is in the views.  *)
C2_Witness ==
  /\ AllViewsWritten
  /\ RLeq(NormalizeYield(feeds[1].info), Zero)
  /\ RLess(Zero, QuotedPrice(1))
  /\ InStockView(2) /\ InSimulatorView(2)

(* C8: the normalized yield is rate / price when rate > 0 and price > 0;    *)
(* otherwise it is the reported yield / 100 when the reported yield is      *)
(* above 0.20, and the reported yield itself when it is not; a collected    *)
(* record carries that yield as a percentage with 2 decimals.               *)
C8_YieldNormalization ==
  \A t \in Processed :
    LET y == NormalizeYield(feeds[t].info) IN
    /\ RatePriceCase(t) => y = RDiv(QuotedRate(t), QuotedPrice(t))
    /\ (~RatePriceCase(t) /\ RLess(Rat(20, 100), QuotedYield(t)))
         => y = RDiv(QuotedYield(t), RInt(100))
    /\ (~RatePriceCase(t) /\ ~RLess(Rat(20, 100), QuotedYield(t))) => y = QuotedYield(t)
    /\ (QuotedYield(t) = Rat(25, 100) /\ ~RatePriceCase(t)) => y = Rat(25, 10000)
    /\ Collected(t) => RecordOf(t).dividendYield = Round2(RMul(y, RInt(100)))

(* C8 witness: reported yield 0.25 with no usable rate: the collected       *)
(* record shows 0.25 percent, the yield 0.0025.                             *)
C8_Witness ==
  /\ Len(feeds) >= 1
  /\ QuotedYield(1) = Rat(25, 100)
  /\ ~RatePriceCase(1)
  /\ Collected(1)
  /\ RecordOf(1).dividendYield = Rat(25, 100)

----------------------------------------------------------------------------
(* C7: the streak *)

PaidYears(t) == {YearOf(feeds[t].dividends[k].date) : k \in 1..Len(feeds[t].dividends)}

(* the year with exactly m later years in the history *)
YearBack(t, m) == CHOOSE y \in PaidYears(t) : Cardinality({z \in PaidYears(t) : z > y}) = m

YearTotal(t, y) == AnnualDivs(feeds[t].dividends)[y]

(* the m-th pair counted from the most recent year is an increase *)
Increase(t, m) == RLess(YearTotal(t, YearBack(t, m)), YearTotal(t, YearBack(t, m - 1)))

ExampleTotals ==
  (2021 :> RInt(1)) @@ (2022 :> Rat(11, 10)) @@ (2023 :> Rat(11, 10)) @@ (2024 :> Rat(12, 10))

(* C7: consecIncreases is the number of year pairs, walking back from the   *)
(* most recent year, whose later total strictly exceeds the earlier one,    *)
(* up to the first pair that is no increase; 0 with fewer than 2 years;     *)
(* 1 for the totals 1.00, 1.10, 1.10, 1.20 of 2021..2024.                   *)
C7_StreakCountsBackward ==
  \A t \in Processed : Collected(t) =>
    LET c == RecordOf(t).consecIncreases
        n == Cardinality(PaidYears(t))
    IN  /\ n < 2 => c = 0
        /\ n >= 2 => /\ c \in 0..(n - 1)
                     /\ \A m \in 1..c : Increase(t, m)
                     /\ c < n - 1 => ~Increase(t, c + 1)
        /\ AnnualDivs(feeds[t].dividends) = ExampleTotals => c = 1

(* C7 witness: the example's yearly totals were processed and gave 1.       *)
C7_Witness ==
  /\ Len(feeds) >= 1
  /\ Collected(1)
  /\ AnnualDivs(feeds[1].dividends) = ExampleTotals
  /\ RecordOf(1).consecIncreases = 1

----------------------------------------------------------------------------
(* C9 and C4: total returns *)

FirstPoint(t, p) == feeds[t].series[p][1]
LastPoint(t, p) == feeds[t].series[p][Len(feeds[t].series[p])]

InRange(t, p) ==
  {k \in 1..Len(feeds[t].dividends) :
     /\ FirstPoint(t, p).date <= feeds[t].dividends[k].date
     /\ feeds[t].dividends[k].date <= LastPoint(t, p).date}

RECURSIVE SumOver(_, _)
SumOver(divs, K) ==
  IF K = {} THEN Zero
  ELSE LET k == CHOOSE x \in K : TRUE IN RAdd(divs[k].amount, SumOver(divs, K \ {k}))

ExactPriceReturn(t, p) ==
  RMul(RDiv(RSub(LastPoint(t, p).close, FirstPoint(t, p).close), FirstPoint(t, p).close), RInt(100))

ExactDivReturn(t, p) ==
  RMul(RDiv(SumOver(feeds[t].dividends, InRange(t, p)), FirstPoint(t, p).close), RInt(100))

Entries(t) == RecordOf(t).totalReturns

IsExample(t, p) ==
  /\ Len(feeds[t].series[p]) = 2
  /\ FirstPoint(t, p).close = RInt(100)
  /\ LastPoint(t, p).close = RInt(110)
  /\ SumOver(feeds[t].dividends, InRange(t, p)) = RInt(2)

(* C9, as stated: in every entry the emitted totalReturn is the emitted     *)
(* priceReturn plus the emitted divReturn.                                  *)
C9_TotalIsSumOfEmitted ==
  \A t \in Processed : Collected(t) =>
    \A p \in DOMAIN Entries(t) :
      Entries(t)[p].totalReturn = RAdd(Entries(t)[p].priceReturn, Entries(t)[p].divReturn)

(* C9, amended: priceReturn and divReturn are the 2-decimal roundings of    *)
(* the percent change first -> last close and of in-range dividends / first *)
(* close x 100; totalReturn is the 2-decimal rounding of the sum of the     *)
(* two unrounded values, within 0.01 of the sum of the two emitted values;  *)
(* [100, 110] with in-range dividends of 2 gives 10.00, 2.00 and 12.00.     *)
C9_TotalIsRoundedSum ==
  \A t \in Processed : Collected(t) =>
    \A p \in DOMAIN Entries(t) :
      LET e == Entries(t)[p]
          gap == RSub(e.totalReturn, RAdd(e.priceReturn, e.divReturn))
      IN  /\ e.priceReturn = Round2(ExactPriceReturn(t, p))
          /\ e.divReturn = Round2(ExactDivReturn(t, p))
          /\ e.totalReturn = Round2(RAdd(ExactPriceReturn(t, p), ExactDivReturn(t, p)))
          /\ RLeq(Rat(-1, 100), gap) /\ RLeq(gap, Rat(1, 100))
          /\ IsExample(t, p) =>
               /\ e.priceReturn = RInt(10)
               /\ e.divReturn = RInt(2)
               /\ e.totalReturn = RInt(12)

(* C9 witness: an entry whose totalReturn is not the sum of its two emitted *)
(* components, in a written returns-ranked view.                            *)
C9_Witness ==
  /\ "total_return_data" \in DOMAIN files
  /\ Len(files["total_return_data"].stocks) = 1
  /\ LET e == files["total_return_data"].stocks[1].totalReturns
     IN  /\ "1y" \in DOMAIN e
         /\ e["1y"].totalReturn # RAdd(e["1y"].priceReturn, e["1y"].divReturn)

(* C4: when the per-period block raised for period p of a ticker, the       *)
(* ticker's record is collected without an entry for p, and every other     *)
(* period that did not raise and has a series of at least 2 points has its  *)
(* entry, computed from its own series.                                     *)
C4_PeriodFailureIsLocal ==
  \A t \in Processed : \A p \in Periods :
    PeriodRaised(feeds[t], p) =>
      /\ Collected(t)
      /\ p \notin DOMAIN Entries(t)
      /\ \A q \in Periods \ {p} :
           (~feeds[t].periodRaises[q] /\ Len(feeds[t].series[q]) >= 2) =>
             /\ q \in DOMAIN Entries(t)
             /\ Entries(t)[q].priceReturn = Round2(ExactPriceReturn(t, q))
             /\ Entries(t)[q].divReturn = Round2(ExactDivReturn(t, q))

(* C4 witness: the 1y period raised, 3y and 5y have their entries, and the  *)
(* record is in the written returns-ranked view.                            *)
C4_Witness ==
  /\ Len(feeds) >= 1
  /\ PeriodRaised(feeds[1], "1y")
  /\ "total_return_data" \in DOMAIN files
  /\ Len(files["total_return_data"].stocks) = 1
  /\ DOMAIN files["total_return_data"].stocks[1].totalReturns = {"3y", "5y"}

----------------------------------------------------------------------------
(* C6: the top-yield view holds at most 30 records, namely the first        *)
(* min(30, N) of the N collected records in descending dividendYield        *)
(* order, and its count is the length of its stocks array.                  *)
C6_TopYieldIsPrefix ==
  "dividend_data" \in DOMAIN files =>
    LET v == files["dividend_data"]
        N == Len(stocks_basic)
    IN  /\ Len(v.stocks) <= 30
        /\ Len(v.stocks) = IF N < 30 THEN N ELSE 30
        /\ \A k \in 1..Len(v.stocks) : v.stocks[k] = stocks_basic[k]
        /\ SameRecords(stocks_basic, ExpectedCollected(total))
        /\ \A a, b \in 1..N :
             a < b => RLeq(stocks_basic[b].dividendYield, stocks_basic[a].dividendYield)
        /\ v.count = Len(v.stocks)

(* C6 witness: more than 30 records were collected, the view holds 30, and  *)
(* the record cut off yields less than the first one.                       *)
C6_Witness ==
  /\ "dividend_data" \in DOMAIN files
  /\ Len(stocks_basic) > 30
  /\ Len(files["dividend_data"].stocks) = 30
  /\ RLess(stocks_basic[31].dividendYield, stocks_basic[1].dividendYield)

====
